---- MODULE Spec2Model ----
(***************************************************************************)
(* rslug: the Slugifier of src/src/lib.rs.                                 *)
(*                                                                         *)
(* A Rust String is modelled as the sequence of its UTF-8 bytes (slugs,    *)
(* separators), an input &str as the sequence of its Unicode scalar        *)
(* values, and a panic as a result record whose field ok is FALSE.         *)
(***************************************************************************)
EXTENDS Integers, Sequences, FiniteSets

VARIABLES separator, to_lowercase, truncate, sanitize_replacement,
          op, input, result

vars == <<separator, to_lowercase, truncate, sanitize_replacement,
          op, input, result>>

(***************************************************************************)
(* Bounds of the model.                                                    *)
(***************************************************************************)
MaxLen == 4

MaxBytes == 4

MaxTokens == 3

MaxTruncate == 4

MaxFilenameLen == 4

(* the texts of at most n characters over an alphabet *)
TextsUpTo(alphabet, n) == UNION {[1..k -> alphabet] : k \in 0..n}

(* 'a', 'B', '-', U+4F60 (ni) *)
TextChars == {97, 66, 45, 20320}

(* 'a', 'B', '-', and a byte above the ASCII range *)
ByteChars == {97, 66, 45, 200}

(* "", "-", "--", "a", and U+00E9 as its two UTF-8 bytes *)
Separators == {<<>>, <<45>>, <<45, 45>>, <<97>>, <<195, 169>>}

(* "a", "B", "aB": the words of the texts apply_truncation's slugs come from *)
Words == {<<97>>, <<66>>, <<97, 66>>}

(* 'a', 'B', ' ', tab, '/', '?' *)
FilenameChars == {97, 66, 32, 9, 47, 63}

(* "", "_", " ", "/", "_ " *)
Replacements == {<<>>, <<95>>, <<32>>, <<47>>, <<95, 32>>}

(***************************************************************************)
(* Option<usize> and the outcome of a call.                                *)
(***************************************************************************)
None == [some |-> FALSE, val |-> 0]

Some(n) == [some |-> TRUE, val |-> n]

Ok(s) == [ok |-> TRUE, out |-> s]

Panic == [ok |-> FALSE, out |-> <<>>]

(***************************************************************************)
(* Character and string primitives of the standard library, as used.       *)
(***************************************************************************)
is_ascii_alphanumeric(c) ==
    \/ c \in 48..57
    \/ c \in 65..90
    \/ c \in 97..122

to_ascii_lowercase(c) == IF c \in 65..90 THEN c + 32 ELSE c

(* char::is_whitespace: the Unicode White_Space property *)
is_whitespace(c) ==
    \/ c \in 9..13
    \/ c \in {32, 133, 160, 5760, 8232, 8233, 8239, 8287, 12288}
    \/ c \in 8192..8202

(* str::is_char_boundary on a byte string *)
is_char_boundary(s, index) ==
    IF index = 0 \/ index = Len(s) THEN TRUE
    ELSE IF index > Len(s) THEN FALSE
    ELSE s[index + 1] \notin 128..191

(* str::rfind: the byte index of the last occurrence, -1 for None *)
rfind(haystack, needle) ==
    LET found == {i \in 0..(Len(haystack) - Len(needle)) :
                     SubSeq(haystack, i + 1, i + Len(needle)) = needle}
    IN  IF found = {} THEN -1
        ELSE CHOOSE i \in found : \A j \in found : j <= i

RECURSIVE trim_start(_)
trim_start(s) ==
    IF s # <<>> /\ is_whitespace(Head(s)) THEN trim_start(Tail(s)) ELSE s

RECURSIVE trim_end(_)
trim_end(s) ==
    IF s # <<>> /\ is_whitespace(s[Len(s)])
    THEN trim_end(SubSeq(s, 1, Len(s) - 1))
    ELSE s

trim(s) == trim_end(trim_start(s))

(* UTF-8 of one Unicode scalar value (up to three bytes) *)
utf8_char(c) ==
    IF c < 128 THEN <<c>>
    ELSE IF c < 2048 THEN <<192 + (c \div 64), 128 + (c % 64)>>
    ELSE <<224 + (c \div 4096), 128 + ((c \div 64) % 64), 128 + (c % 64)>>

RECURSIVE as_bytes(_)
as_bytes(text) ==
    IF text = <<>> THEN <<>> ELSE utf8_char(Head(text)) \o as_bytes(Tail(text))

(* the scalar values of a UTF-8 byte string (a String is always valid UTF-8) *)
RECURSIVE chars(_)
chars(s) ==
    IF s = <<>> THEN <<>>
    ELSE IF s[1] < 128 THEN <<s[1]>> \o chars(Tail(s))
    ELSE IF s[1] < 224
         THEN <<(s[1] - 192) * 64 + (s[2] - 128)>> \o chars(SubSeq(s, 3, Len(s)))
         ELSE <<(s[1] - 224) * 4096 + (s[2] - 128) * 64 + (s[3] - 128)>>
              \o chars(SubSeq(s, 4, Len(s)))

(***************************************************************************)
(* any_ascii, the transliteration the crate calls: the identity on ASCII,  *)
(* U+00E9 -> "e", U+4F60 -> "Ni", nothing for a character without mapping. *)
(***************************************************************************)
any_ascii_char(c) ==
    IF c < 128 THEN <<c>>
    ELSE IF c = 233 THEN <<101>>
    ELSE IF c = 20320 THEN <<78, 105>>
    ELSE <<>>

RECURSIVE any_ascii(_)
any_ascii(text) ==
    IF text = <<>> THEN <<>>
    ELSE any_ascii_char(Head(text)) \o any_ascii(Tail(text))

(***************************************************************************)
(* Slugifier                                                               *)
(***************************************************************************)
Slugifier(sep, lower, trunc, repl) ==
    [separator |-> sep, to_lowercase |-> lower, truncate |-> trunc,
     sanitize_replacement |-> repl]

Default == Slugifier(<<45>>, TRUE, None, <<>>)

Self == Slugifier(separator, to_lowercase, truncate, sanitize_replacement)

(* the list without '?' *)
ILLEGAL_FILENAME_CHARS_short == {47, 92, 58, 42, 34, 60, 62, 124}

(* / \ : * ? " < > | *)
ILLEGAL_FILENAME_CHARS == {47, 92, 58, 42, 63, 34, 60, 62, 124}

(* a sanitize_filename that keeps the whitespace character it meets *)
RECURSIVE sanitize_loop_keeps_whitespace(_, _, _, _, _)
sanitize_loop_keeps_whitespace(self, filename, i, sanitized, last_char_was_boundary) ==
    IF i > Len(filename) THEN sanitized
    ELSE LET c == filename[i] IN
         IF c \in ILLEGAL_FILENAME_CHARS \/ is_whitespace(c)
         THEN IF ~last_char_was_boundary
              THEN IF is_whitespace(c)
                   THEN sanitize_loop_keeps_whitespace(self, filename, i + 1,
                                      Append(sanitized, c), TRUE)
                   ELSE sanitize_loop_keeps_whitespace(self, filename, i + 1,
                                      sanitized \o self.sanitize_replacement, TRUE)
              ELSE sanitize_loop_keeps_whitespace(self, filename, i + 1, sanitized,
                                 last_char_was_boundary)
         ELSE sanitize_loop_keeps_whitespace(self, filename, i + 1,
                                             Append(sanitized, c), FALSE)

(* a sanitize_filename that does not set the flag after a replacement *)
RECURSIVE sanitize_loop_no_collapse(_, _, _, _, _)
sanitize_loop_no_collapse(self, filename, i, sanitized, last_char_was_boundary) ==
    IF i > Len(filename) THEN sanitized
    ELSE LET c == filename[i] IN
         IF c \in ILLEGAL_FILENAME_CHARS \/ is_whitespace(c)
         THEN IF ~last_char_was_boundary
              THEN IF is_whitespace(c)
                   THEN sanitize_loop_no_collapse(self, filename, i + 1,
                                      Append(sanitized, 32), TRUE)
                   ELSE sanitize_loop_no_collapse(self, filename, i + 1,
                                      sanitized \o self.sanitize_replacement,
                                      last_char_was_boundary)
              ELSE sanitize_loop_no_collapse(self, filename, i + 1, sanitized,
                                 last_char_was_boundary)
         ELSE sanitize_loop_no_collapse(self, filename, i + 1,
                                        Append(sanitized, c), FALSE)

(* the for loop of sanitize_filename, from character i on *)
RECURSIVE sanitize_loop(_, _, _, _, _)
sanitize_loop(self, filename, i, sanitized, last_char_was_boundary) ==
    IF i > Len(filename) THEN sanitized
    ELSE LET c == filename[i] IN
         IF c \in ILLEGAL_FILENAME_CHARS \/ is_whitespace(c)
         THEN IF ~last_char_was_boundary
              THEN IF is_whitespace(c)
                   THEN sanitize_loop(self, filename, i + 1,
                                      Append(sanitized, 32), TRUE)
                   ELSE sanitize_loop(self, filename, i + 1,
                                      sanitized \o self.sanitize_replacement, TRUE)
              ELSE sanitize_loop(self, filename, i + 1, sanitized,
                                 last_char_was_boundary)
         ELSE sanitize_loop(self, filename, i + 1, Append(sanitized, c), FALSE)

sanitize_filename(self, filename) ==
    Ok(trim(sanitize_loop(self, filename, 1, <<>>, FALSE)))

(* an apply_truncation that cuts after the separator it finds *)
apply_truncation_keeps_separator(self, slug) ==
    IF self.truncate.some /\ Len(slug) > self.truncate.val
    THEN LET max_len == self.truncate.val
             hard == IF is_char_boundary(slug, max_len)
                     THEN Ok(SubSeq(slug, 1, max_len))
                     ELSE Panic
         IN  IF self.separator # <<>>
             THEN IF ~is_char_boundary(slug, max_len) THEN Panic
                  ELSE LET last_sep_index ==
                               rfind(SubSeq(slug, 1, max_len), self.separator)
                       IN  IF last_sep_index # -1
                           THEN Ok(SubSeq(slug, 1, last_sep_index + Len(self.separator)))
                           ELSE hard
             ELSE hard
    ELSE Ok(slug)

(* str::find: the byte index of the first occurrence, -1 for None *)
find(haystack, needle) ==
    LET found == {i \in 0..(Len(haystack) - Len(needle)) :
                     SubSeq(haystack, i + 1, i + Len(needle)) = needle}
    IN  IF found = {} THEN -1
        ELSE CHOOSE i \in found : \A j \in found : i <= j

(* an apply_truncation that cuts at the first separator, not the last *)
apply_truncation_first_separator(self, slug) ==
    IF self.truncate.some /\ Len(slug) > self.truncate.val
    THEN LET max_len == self.truncate.val
             hard == IF is_char_boundary(slug, max_len)
                     THEN Ok(SubSeq(slug, 1, max_len))
                     ELSE Panic
         IN  IF self.separator # <<>>
             THEN IF ~is_char_boundary(slug, max_len) THEN Panic
                  ELSE LET last_sep_index ==
                               find(SubSeq(slug, 1, max_len), self.separator)
                       IN  IF last_sep_index # -1
                           THEN Ok(SubSeq(slug, 1, last_sep_index))
                           ELSE hard
             ELSE hard
    ELSE Ok(slug)

(* an apply_truncation that searches one byte short of max_len *)
apply_truncation_short_prefix(self, slug) ==
    IF self.truncate.some /\ Len(slug) > self.truncate.val
    THEN LET max_len == self.truncate.val
             hard == IF is_char_boundary(slug, max_len)
                     THEN Ok(SubSeq(slug, 1, max_len))
                     ELSE Panic
         IN  IF self.separator # <<>>
             THEN IF ~is_char_boundary(slug, max_len) THEN Panic
                  ELSE LET last_sep_index ==
                               rfind(SubSeq(slug, 1, max_len - 1), self.separator)
                       IN  IF last_sep_index # -1
                           THEN Ok(SubSeq(slug, 1, last_sep_index))
                           ELSE hard
             ELSE hard
    ELSE Ok(slug)

apply_truncation(self, slug) ==
    IF self.truncate.some /\ Len(slug) > self.truncate.val
    THEN LET max_len == self.truncate.val
             hard == IF is_char_boundary(slug, max_len)
                     THEN Ok(SubSeq(slug, 1, max_len))
                     ELSE Panic
         IN  IF self.separator # <<>>
             THEN IF ~is_char_boundary(slug, max_len) THEN Panic
                  ELSE LET last_sep_index ==
                               rfind(SubSeq(slug, 1, max_len), self.separator)
                       IN  IF last_sep_index # -1
                           THEN Ok(SubSeq(slug, 1, last_sep_index))
                           ELSE hard
             ELSE hard
    ELSE Ok(slug)

(* a slugify that does not look whether the slug is still empty *)
RECURSIVE slugify_loop_leading_separator(_, _, _, _, _)
slugify_loop_leading_separator(self, text, i, slug, found_sep) ==
    IF i > Len(text) THEN slug
    ELSE LET c == text[i] IN
         IF is_ascii_alphanumeric(c)
         THEN LET sep == IF found_sep THEN self.separator ELSE <<>>
                  ch  == IF self.to_lowercase THEN to_ascii_lowercase(c) ELSE c
              IN  slugify_loop_leading_separator(self, text, i + 1,
                                                 Append(slug \o sep, ch), FALSE)
         ELSE slugify_loop_leading_separator(self, text, i + 1, slug, TRUE)

(* a slugify that lowercases whatever to_lowercase says *)
RECURSIVE slugify_loop_always_lowercase(_, _, _, _, _)
slugify_loop_always_lowercase(self, text, i, slug, found_sep) ==
    IF i > Len(text) THEN slug
    ELSE LET c == text[i] IN
         IF is_ascii_alphanumeric(c)
         THEN LET sep == IF found_sep /\ slug # <<>> THEN self.separator ELSE <<>>
                  ch  == to_ascii_lowercase(c)
              IN  slugify_loop_always_lowercase(self, text, i + 1,
                                                Append(slug \o sep, ch), FALSE)
         ELSE slugify_loop_always_lowercase(self, text, i + 1, slug, TRUE)

(* the for loop of slugify, from byte i of the transliterated text on *)
RECURSIVE slugify_loop(_, _, _, _, _)
slugify_loop(self, text, i, slug, found_sep) ==
    IF i > Len(text) THEN slug
    ELSE LET c == text[i] IN
         IF is_ascii_alphanumeric(c)
         THEN LET sep == IF found_sep /\ slug # <<>> THEN self.separator ELSE <<>>
                  ch  == IF self.to_lowercase THEN to_ascii_lowercase(c) ELSE c
              IN  slugify_loop(self, text, i + 1, Append(slug \o sep, ch), FALSE)
         ELSE slugify_loop(self, text, i + 1, slug, TRUE)

slugify(self, text) ==
    apply_truncation(self, slugify_loop(self, any_ascii(text), 1, <<>>, FALSE))

(* a slugify_ascii that never clears found_sep *)
RECURSIVE slugify_ascii_loop_no_reset(_, _, _, _, _)
slugify_ascii_loop_no_reset(self, text, i, slug, found_sep) ==
    IF i > Len(text) THEN slug
    ELSE LET c == text[i] IN
         IF is_ascii_alphanumeric(c)
         THEN LET sep == IF found_sep /\ slug # <<>> THEN self.separator ELSE <<>>
                  ch  == IF self.to_lowercase THEN to_ascii_lowercase(c) ELSE c
              IN  slugify_ascii_loop_no_reset(self, text, i + 1,
                                              Append(slug \o sep, ch), found_sep)
         ELSE slugify_ascii_loop_no_reset(self, text, i + 1, slug, TRUE)

(* the for loop of slugify_ascii, from byte i on *)
RECURSIVE slugify_ascii_loop(_, _, _, _, _)
slugify_ascii_loop(self, text, i, slug, found_sep) ==
    IF i > Len(text) THEN slug
    ELSE LET c == text[i] IN
         IF is_ascii_alphanumeric(c)
         THEN LET sep == IF found_sep /\ slug # <<>> THEN self.separator ELSE <<>>
                  ch  == IF self.to_lowercase THEN to_ascii_lowercase(c) ELSE c
              IN  slugify_ascii_loop(self, text, i + 1, Append(slug \o sep, ch), FALSE)
         ELSE slugify_ascii_loop(self, text, i + 1, slug, TRUE)

slugify_ascii(self, text) ==
    apply_truncation(self, slugify_ascii_loop(self, text, 1, <<>>, FALSE))

(***************************************************************************)
(* The state machine.  Every method is synchronous: a call is made when no *)
(* call is in progress (op = "none"), its outcome is held in result until  *)
(* the caller takes it (Return).  The builder methods consume the          *)
(* Slugifier and give a new one.                                           *)
(***************************************************************************)
Idle == op = "none"

Init ==
    /\ separator = Default.separator
    /\ to_lowercase = Default.to_lowercase
    /\ truncate = Default.truncate
    /\ sanitize_replacement = Default.sanitize_replacement
    /\ op = "none"
    /\ input = <<>>
    /\ result = Ok(<<>>)

Build_separator ==
    \E s \in Separators :
        /\ Idle
        /\ separator' = s
        /\ UNCHANGED <<op, input, result, to_lowercase, truncate, sanitize_replacement>>

Build_to_lowercase ==
    \E lowercase \in BOOLEAN :
        /\ Idle
        /\ to_lowercase' = lowercase
        /\ UNCHANGED <<op, input, result, separator, truncate, sanitize_replacement>>

Build_truncate ==
    \E max_length \in 0..MaxTruncate :
        /\ Idle
        /\ truncate' = Some(max_length)
        /\ UNCHANGED <<op, input, result, separator, to_lowercase, sanitize_replacement>>

Build_sanitize_replacement ==
    \E replacement \in Replacements :
        /\ Idle
        /\ sanitize_replacement' = replacement
        /\ UNCHANGED <<op, input, result, separator, to_lowercase, truncate>>

Call_slugify ==
    \E text \in TextsUpTo(TextChars, MaxLen) :
        /\ Idle
        /\ op' = "slugify"
        /\ input' = text
        /\ result' = slugify(Self, text)
        /\ UNCHANGED <<separator, to_lowercase, truncate, sanitize_replacement>>

Call_slugify_ascii ==
    \E text \in TextsUpTo(ByteChars, MaxBytes) :
        /\ Idle
        /\ op' = "slugify_ascii"
        /\ input' = text
        /\ result' = slugify_ascii(Self, text)
        /\ UNCHANGED <<separator, to_lowercase, truncate, sanitize_replacement>>

(* the words with one '-' between them *)
RECURSIVE Sentence(_)
Sentence(words) ==
    IF words = <<>> THEN <<>>
    ELSE IF Len(words) = 1 THEN words[1]
    ELSE words[1] \o <<45>> \o Sentence(Tail(words))

(* apply_truncation on a slug as the scan leaves it *)
Call_apply_truncation ==
    \E words \in TextsUpTo(Words, MaxTokens) :
        LET slug == slugify_ascii_loop(Self, Sentence(words), 1, <<>>, FALSE) IN
        /\ Idle
        /\ op' = "apply_truncation"
        /\ input' = slug
        /\ result' = apply_truncation(Self, slug)
        /\ UNCHANGED <<separator, to_lowercase, truncate, sanitize_replacement>>

Call_sanitize_filename ==
    \E filename \in TextsUpTo(FilenameChars, MaxFilenameLen) :
        /\ Idle
        /\ op' = "sanitize_filename"
        /\ input' = filename
        /\ result' = sanitize_filename(Self, filename)
        /\ UNCHANGED <<separator, to_lowercase, truncate, sanitize_replacement>>

Return ==
    /\ ~Idle
    /\ op' = "none"
    /\ input' = <<>>
    /\ result' = Ok(<<>>)
    /\ UNCHANGED <<separator, to_lowercase, truncate, sanitize_replacement>>

Next ==
    \/ Build_separator
    \/ Build_to_lowercase
    \/ Build_truncate
    \/ Call_slugify
    \/ Call_slugify_ascii
    \/ Call_apply_truncation
    \/ Return

Spec == Init /\ [][Next]_vars

NextSanitize ==
    \/ Build_sanitize_replacement
    \/ Call_sanitize_filename
    \/ Return

SpecSanitize == Init /\ [][NextSanitize]_vars

(***************************************************************************)
(* Vocabulary of the properties.                                           *)
(***************************************************************************)
(* the nine symbols / \ : * ? " < > | *)
IllegalSymbols == {47, 92, 58, 42, 63, 34, 60, 62, 124}

IsPrefix(p, s) == Len(p) <= Len(s) /\ SubSeq(s, 1, Len(p)) = p

IsSuffix(p, s) == Len(p) <= Len(s) /\ SubSeq(s, Len(s) - Len(p) + 1, Len(s)) = p

Occurrences(s, p) ==
    {i \in 0..(Len(s) - Len(p)) : SubSeq(s, i + 1, i + Len(p)) = p}

Contains(s, p) == Occurrences(s, p) # {}

IsAscii(s) == \A i \in 1..Len(s) : s[i] < 128

NoAlnum(s) == \A i \in 1..Len(s) : ~is_ascii_alphanumeric(s[i])

AllAlnum(s) == \A i \in 1..Len(s) : is_ascii_alphanumeric(s[i])

(* the maximal runs of ASCII-alphanumeric bytes of t, in order *)
RunStarts(t) ==
    {i \in 1..Len(t) :
        is_ascii_alphanumeric(t[i]) /\ (i = 1 \/ ~is_ascii_alphanumeric(t[i - 1]))}

RunEnd(t, i) ==
    CHOOSE j \in i..Len(t) :
        /\ AllAlnum(SubSeq(t, i, j))
        /\ (j = Len(t) \/ ~is_ascii_alphanumeric(t[j + 1]))

RECURSIVE TokensFrom(_, _)
TokensFrom(t, i) ==
    IF i > Len(t) THEN <<>>
    ELSE IF i \in RunStarts(t)
         THEN <<SubSeq(t, i, RunEnd(t, i))>> \o TokensFrom(t, RunEnd(t, i) + 1)
         ELSE TokensFrom(t, i + 1)

Tokens(t) == TokensFrom(t, 1)

Cased(lower, token) ==
    [i \in 1..Len(token) |->
        IF lower /\ token[i] \in 65..90 THEN token[i] + 32 ELSE token[i]]

RECURSIVE Join(_, _, _)
Join(tokens, sep, lower) ==
    IF tokens = <<>> THEN <<>>
    ELSE IF Len(tokens) = 1 THEN Cased(lower, tokens[1])
    ELSE Cased(lower, tokens[1]) \o sep \o Join(Tail(tokens), sep, lower)

(* s is one or more non-empty alphanumeric tokens with sep between them *)
RECURSIVE IsTokens(_, _)
IsTokens(s, sep) ==
    \E k \in 1..Len(s) :
        /\ AllAlnum(SubSeq(s, 1, k))
        /\ \/ k = Len(s)
           \/ /\ IsPrefix(sep, SubSeq(s, k + 1, Len(s)))
              /\ IsTokens(SubSeq(s, k + Len(sep) + 1, Len(s)), sep)

(* the slug before truncation, of the call in progress *)
Untruncated ==
    IF op = "slugify" THEN slugify_loop(Self, any_ascii(input), 1, <<>>, FALSE)
    ELSE IF op = "slugify_ascii" THEN slugify_ascii_loop(Self, input, 1, <<>>, FALSE)
    ELSE input

(* the ASCII bytes the scan of the call in progress reads *)
Scanned == IF op = "slugify" THEN any_ascii(input) ELSE input

(***************************************************************************)
(* C8: with truncation unset, slugify_ascii returns the maximal runs of    *)
(* ASCII-alphanumeric bytes of its input, in order, joined by one          *)
(* separator between adjacent runs, lowercased when to_lowercase is set    *)
(* and in their own case otherwise; the empty string when there is no run. *)
(***************************************************************************)
C8_AsciiScanIsJoinOfRuns ==
    (op = "slugify_ascii" /\ ~truncate.some)
        => result = Ok(Join(Tokens(input), separator, to_lowercase))

C8_Witness ==
    /\ op = "slugify_ascii"
    /\ ~truncate.some
    /\ to_lowercase
    /\ Len(separator) = 2
    /\ Len(Tokens(input)) = 2
    /\ ~is_ascii_alphanumeric(input[1])
    /\ \E i \in 1..Len(input) : input[i] \in 65..90
    /\ result.ok /\ Len(result.out) >= 4

(***************************************************************************)
(* C3: for pure-ASCII text, slugify and slugify_ascii on the text's bytes  *)
(* return the same string, truncation included.                            *)
(***************************************************************************)
C3_AsciiEquivalence ==
    (op = "slugify" /\ IsAscii(input))
        => result = slugify_ascii(Self, as_bytes(input))

C3_Witness ==
    /\ op = "slugify"
    /\ IsAscii(input)
    /\ truncate.some
    /\ Len(Untruncated) > truncate.val
    /\ Len(Tokens(input)) = 2
    /\ result.ok /\ result.out # <<>>

(***************************************************************************)
(* C1, as claimed: for every text and every configuration the slug         *)
(* slugify returns is empty or non-empty alphanumeric tokens joined by     *)
(* single separators: it neither starts nor ends with the separator nor    *)
(* holds two separators in a row (read for a non-empty separator).         *)
(***************************************************************************)
NoStraySeparator(s, sep) ==
    sep # <<>> =>
        /\ ~IsPrefix(sep, s)
        /\ ~IsSuffix(sep, s)
        /\ ~Contains(s, sep \o sep)

WellFormedSlug(s, sep) ==
    s = <<>> \/ (IsTokens(s, sep) /\ NoStraySeparator(s, sep))

C1_Original ==
    (op = "slugify" /\ result.ok) => WellFormedSlug(result.out, separator)

(***************************************************************************)
(* C1, amended: for a separator without ASCII-alphanumeric characters that *)
(* is empty, or one ASCII character, or used with truncation unset,        *)
(* slugify returns the empty string or non-empty alphanumeric tokens       *)
(* joined by single separators; for every ASCII separator without          *)
(* alphanumeric characters (truncation set or not) the slug neither starts *)
(* nor ends with the separator nor holds two separators in a row.          *)
(***************************************************************************)
C1_TokenDomain ==
    /\ NoAlnum(separator)
    /\ \/ separator = <<>>
       \/ Len(separator) = 1 /\ IsAscii(separator)
       \/ ~truncate.some

C1_SlugShape ==
    op = "slugify" =>
        /\ C1_TokenDomain
              => (result.ok /\ WellFormedSlug(result.out, separator))
        /\ (NoAlnum(separator) /\ IsAscii(separator))
              => (result.ok /\ NoStraySeparator(result.out, separator))

C1_Witness ==
    /\ op = "slugify"
    /\ separator = <<45>>
    /\ truncate.some
    /\ Len(input) = 4
    /\ input[1] = 45
    /\ Len(Tokens(Scanned)) = 2
    /\ result.ok /\ Contains(result.out, separator)

(***************************************************************************)
(* C2, as claimed: for every text and every configuration, slugify of a    *)
(* slug slugify returned is that slug.                                     *)
(***************************************************************************)
C2_Original ==
    (op = "slugify" /\ result.ok) => slugify(Self, chars(result.out)) = result

(***************************************************************************)
(* C2, amended: slugify of a slug slugify returned is that slug when the   *)
(* separator is empty, or one non-alphanumeric ASCII character, or a       *)
(* string of non-alphanumeric ASCII characters used with truncation unset. *)
(***************************************************************************)
C2_Domain ==
    /\ NoAlnum(separator)
    /\ IsAscii(separator)
    /\ (Len(separator) <= 1 \/ ~truncate.some)

C2_Idempotent ==
    (op = "slugify" /\ C2_Domain)
        => (result.ok /\ slugify(Self, chars(result.out)) = result)

C2_Witness ==
    /\ op = "slugify"
    /\ C2_Domain
    /\ separator # <<>>
    /\ truncate.some
    /\ Len(Untruncated) > truncate.val
    /\ \E i \in 1..Len(input) : input[i] > 127
    /\ Len(Tokens(Scanned)) = 2
    /\ result.ok /\ result.out # <<>>

(***************************************************************************)
(* C4, as claimed: with truncate = n the slug slugify / slugify_ascii      *)
(* return is at most n long; a slug of at most n is returned unchanged;    *)
(* when the slug is longer than n and the separator occurs within its      *)
(* first n characters the result ends exactly before the last such         *)
(* occurrence, and is a whole number of tokens.                            *)
(***************************************************************************)
LastOccurrence(s, p) ==
    CHOOSE i \in Occurrences(s, p) : \A j \in Occurrences(s, p) : j <= i

WholeTokens(s) ==
    \E k \in 0..Len(Tokens(Scanned)) :
        s = Join(SubSeq(Tokens(Scanned), 1, k), separator, to_lowercase)

C4_Bounded(n) ==
    /\ Len(result.out) <= n
    /\ Len(Untruncated) <= n => result.out = Untruncated

C4_SeparatorSeen(n) ==
    /\ Len(Untruncated) > n
    /\ separator # <<>>
    /\ Contains(SubSeq(Untruncated, 1, n), separator)

C4_CutAtLast(n) ==
    result.out =
        SubSeq(Untruncated, 1, LastOccurrence(SubSeq(Untruncated, 1, n), separator))

C4_Original ==
    (op \in {"slugify", "slugify_ascii"} /\ truncate.some /\ result.ok) =>
        /\ C4_Bounded(truncate.val)
        /\ C4_SeparatorSeen(truncate.val)
              => (C4_CutAtLast(truncate.val) /\ WholeTokens(result.out))

(***************************************************************************)
(* C4, amended: for an ASCII separator and truncate = n, slugify and       *)
(* slugify_ascii return a slug at most n long; a slug of at most n is      *)
(* returned unchanged; when the slug is longer than n and the (non-empty)  *)
(* separator occurs within its first n characters the result ends exactly  *)
(* before the last such occurrence; it is then a whole number of tokens if *)
(* the separator has no alphanumeric character.                            *)
(***************************************************************************)
C4_Truncation ==
    (op \in {"slugify", "slugify_ascii"} /\ truncate.some /\ IsAscii(separator)) =>
        /\ result.ok
        /\ C4_Bounded(truncate.val)
        /\ C4_SeparatorSeen(truncate.val)
              => /\ C4_CutAtLast(truncate.val)
                 /\ NoAlnum(separator) => WholeTokens(result.out)

C4_Witness ==
    /\ op = "slugify"
    /\ truncate.some
    /\ separator = <<45, 45>>
    /\ C4_SeparatorSeen(truncate.val)
    /\ Len(Tokens(Scanned)) = 2
    /\ result.ok /\ result.out # <<>>

(***************************************************************************)
(* C6: slugify, slugify_ascii and apply_truncation run to completion and   *)
(* return a string for every text and every configuration the builder      *)
(* accepts: they never panic.                                              *)
(***************************************************************************)
C6_Total ==
    op \in {"slugify", "slugify_ascii", "apply_truncation"} => result.ok

(***************************************************************************)
(* C10, as claimed: for every slug of the scan, every separator and all    *)
(* limits n1 <= n2, apply_truncation with limit n1 gives a prefix of what  *)
(* it gives with limit n2, and both are prefixes of the slug.              *)
(***************************************************************************)
Limits == {None} \cup {Some(n) : n \in 0..MaxTruncate}

(* n1 <= n2, no limit being the largest *)
LimitLeq(l1, l2) == ~l2.some \/ (l1.some /\ l1.val <= l2.val)

WithLimit(l) == Slugifier(separator, to_lowercase, l, sanitize_replacement)

C10_Original ==
    (op = "apply_truncation" /\ result.ok) =>
        /\ IsPrefix(result.out, input)
        /\ \A l \in Limits :
              (LimitLeq(l, truncate) /\ apply_truncation(WithLimit(l), input).ok)
                  => IsPrefix(apply_truncation(WithLimit(l), input).out, result.out)

(***************************************************************************)
(* C10, amended: for a separator that is empty or one ASCII character,     *)
(* apply_truncation returns for every limit, and for all limits n1 <= n2   *)
(* its result with n1 is a prefix of its result with n2; both are prefixes *)
(* of the slug.                                                            *)
(***************************************************************************)
C10_TruncationMonotone ==
    (op = "apply_truncation" /\ Len(separator) <= 1) =>
        /\ result.ok
        /\ IsPrefix(result.out, input)
        /\ \A l \in Limits :
              LimitLeq(l, truncate) =>
                  /\ apply_truncation(WithLimit(l), input).ok
                  /\ IsPrefix(apply_truncation(WithLimit(l), input).out, result.out)

C10_Witness ==
    /\ op = "apply_truncation"
    /\ separator = <<45>>
    /\ truncate = Some(4)
    /\ Len(input) > 4
    /\ Cardinality(Occurrences(input, separator)) = 2
    /\ result.ok
    /\ apply_truncation(WithLimit(Some(2)), input).out # result.out
    /\ apply_truncation(WithLimit(Some(2)), input).out # <<>>

(***************************************************************************)
(* C5, as claimed: for every text and every sanitize_replacement the       *)
(* output of sanitize_filename holds none of / \ : * ? " < > |.            *)
(***************************************************************************)
NoIllegalChar(s) == \A i \in 1..Len(s) : s[i] \notin IllegalSymbols

C5_Original == op = "sanitize_filename" => NoIllegalChar(result.out)

(***************************************************************************)
(* C5, amended: for every text and every sanitize_replacement that itself  *)
(* holds none of / \ : * ? " < > |, the output of sanitize_filename holds  *)
(* none of them.                                                           *)
(***************************************************************************)
C5_SafeOutput ==
    (op = "sanitize_filename" /\ NoIllegalChar(sanitize_replacement))
        => (result.ok /\ NoIllegalChar(result.out))

C5_Witness ==
    /\ op = "sanitize_filename"
    /\ sanitize_replacement = <<95>>
    /\ \E i \in 1..Len(input) : input[i] = 63
    /\ \E i \in 1..Len(input) : input[i] = 47
    /\ result.ok /\ Len(result.out) >= 3

(***************************************************************************)
(* C7: sanitize_filename is this reference: cut the input into maximal     *)
(* runs of boundary characters (the nine illegal symbols, whitespace) and  *)
(* of other characters; other characters are copied; each boundary run     *)
(* gives one emission chosen by its first character (a space if it is      *)
(* whitespace, sanitize_replacement otherwise); last, only leading and     *)
(* trailing whitespace is stripped, so a non-whitespace replacement at an  *)
(* end stays.                                                              *)
(***************************************************************************)
IsBoundary(c) == c \in IllegalSymbols \/ is_whitespace(c)

Emission(repl, f, i) ==
    IF ~IsBoundary(f[i]) THEN <<f[i]>>
    ELSE IF i = 1 \/ ~IsBoundary(f[i - 1])
         THEN IF is_whitespace(f[i]) THEN <<32>> ELSE repl
         ELSE <<>>

RECURSIVE Emissions(_, _, _)
Emissions(repl, f, i) ==
    IF i > Len(f) THEN <<>> ELSE Emission(repl, f, i) \o Emissions(repl, f, i + 1)

Strip(s) ==
    LET kept == {i \in 1..Len(s) : ~is_whitespace(s[i])}
    IN  IF kept = {} THEN <<>>
        ELSE SubSeq(s, CHOOSE i \in kept : \A j \in kept : i <= j,
                       CHOOSE i \in kept : \A j \in kept : j <= i)

Sanitized(k) == sanitize_loop(Self, SubSeq(input, 1, k), 1, <<>>, FALSE)

IllegalRuns ==
    {r \in (1..Len(input)) \X (1..Len(input)) :
        /\ r[1] <= r[2]
        /\ \A i \in r[1]..r[2] : input[i] \in IllegalSymbols
        /\ (r[1] = 1 \/ input[r[1] - 1] \notin IllegalSymbols)
        /\ (r[2] = Len(input) \/ input[r[2] + 1] \notin IllegalSymbols)}

AfterWhitespace(r) == r[1] > 1 /\ is_whitespace(input[r[1] - 1])

C9_Original ==
    op = "sanitize_filename" =>
        \A r \in IllegalRuns :
            Sanitized(r[2]) = Sanitized(r[1] - 1) \o sanitize_replacement

(***************************************************************************)
(* C9, amended: a maximal run of illegal non-whitespace characters adds    *)
(* exactly one sanitize_replacement to the result before the trim when no  *)
(* whitespace character comes immediately before it, and adds nothing when *)
(* one does; whitespace after the run changes neither.                     *)
(***************************************************************************)
C9_ReplacementPerRun ==
    op = "sanitize_filename" =>
        \A r \in IllegalRuns :
            Sanitized(r[2]) =
                Sanitized(r[1] - 1)
                    \o (IF AfterWhitespace(r) THEN <<>> ELSE sanitize_replacement)

C9_Witness ==
    /\ op = "sanitize_filename"
    /\ sanitize_replacement = <<95>>
    /\ \E r \in IllegalRuns : r[2] > r[1] /\ ~AfterWhitespace(r)
    /\ \E r \in IllegalRuns : AfterWhitespace(r)
    /\ result.ok /\ result.out = <<95>>
====
